---- MODULE Spec2Model ----
(***************************************************************************)
(* Model of the Node.js Turbopack runtime                                  *)
(* (turbopack-ecmascript-runtime/js/src/nodejs/runtime.ts): the factory    *)
(* table, the module cache, the synchronous and asynchronous chunk loaders *)
(* and module instantiation with re-entrant requires; and of the two pure  *)
(* stack-frame helpers of next/src/server/lib/source-maps.ts.              *)
(*                                                                         *)
(* Factories are code produced by the bundler.  A running factory is       *)
(* modelled by what it can do through the runtime: require other modules,  *)
(* call the runtime entry point, load chunks, clear the chunk cache, catch *)
(* or propagate an exception of a nested call, return, or throw a value.   *)
(* The execution of nested factories is an explicit call stack.            *)
(***************************************************************************)
EXTENDS Integers, Sequences, FiniteSets, TLC

VARIABLES
    moduleFactories,  \* runtime.ts:64  id -> factory (partial function)
    moduleCache,      \* runtime.ts:65  id -> module record (partial function)
    loadedChunks,     \* runtime.ts:95  set of chunk paths
    chunkCache,       \* runtime.ts:98  chunk path -> promise (partial function)
    stack,            \* activations of instantiateModule whose factory is running
    exc,              \* exception in flight inside the factory on top of the stack
    lastCall,         \* the last completed call of the runtime and its outcome
    invocations,      \* history: id -> number of times its factory was called
    syncCalls,        \* history: path -> number of require() calls of loadChunkPath
    syncLoaded,       \* history: path -> number of those calls that returned the table
    asyncLoads,       \* history: path -> loader calls of loadChunkAsync since the last clear
    merged,           \* history: paths whose table was merged into moduleFactories
    captured,         \* history: exports of modules still instantiating handed to a requirer
    nextPromise,      \* number of rejected promises created so far
    payload,          \* source-maps.ts:67  the payload given to findApplicableSourceMapPayload
    position,         \* source-maps.ts:65-66  line0 and column0 of the frame
    applicable,       \* what findApplicableSourceMapPayload returned
    frames,           \* source-maps.ts:198  the frames given to ignoreListAnonymousStackFramesIfSandwiched
    ignoreFrameCalls  \* the calls of ignoreFrame made: the indices of the frames, in call order

vars == <<moduleFactories, moduleCache, loadedChunks, chunkCache, stack, exc,
          lastCall, invocations, syncCalls, syncLoaded, asyncLoads, merged,
          captured, nextPromise, payload, position, applicable, frames,
          ignoreFrameCalls>>

\* the state of the stack-frame helpers of source-maps.ts, which the runtime
\* does not touch
sourceMapVars == <<payload, position, applicable, frames, ignoreFrameCalls>>

-----------------------------------------------------------------------------
(* Bounds of the model *)

\* requires (and runtime-entry calls) one activation of a factory performs
MaxRequires == 2
\* require() calls of the synchronous loader per chunk path
MaxLoaderCalls == 2
\* rejected promises created by loadChunkAsync over a run
MaxRejections == 2
\* sections of an index source map
MaxSections == 3
\* largest line and largest column of a section offset or a frame position
MaxLine == 2
MaxColumn == 1
\* frames of a stack given to ignoreListAnonymousStackFramesIfSandwiched
MaxFrames == 4

-----------------------------------------------------------------------------
(* Values *)

SourceTypeRuntime == 0
SourceTypeParent == 1

Undefined == [kind |-> "undefined"]

ModuleIds == {"A", "B", "C"}

\* chunk paths, as character sequences
PathA == <<"a", ".", "j", "s">>
PathB == <<"b", ".", "j", "s", "?", "v">>
PathCss == <<"c", ".", "c", "s", "s">>
PathJsx == <<"d", ".", "j", "s", "x">>
ChunkPaths == {PathA, PathB, PathCss, PathJsx}

\* the tail (?:\?[^#]*)?(?:#.*)?$ of regexJsUrl
JsTail(t) ==
    \/ t = <<>>
    \/ t[1] = "?"
    \/ t[1] = "#"

\* faulty variant of isJs: the pattern is not anchored at the end of the path
isJsUnanchored(chunkUrlOrPath) ==
    \E i \in 1..(Len(chunkUrlOrPath) - 2) :
        /\ chunkUrlOrPath[i] = "."
        /\ chunkUrlOrPath[i + 1] = "j"
        /\ chunkUrlOrPath[i + 2] = "s"

isJs(chunkUrlOrPath) ==
    \E i \in 1..(Len(chunkUrlOrPath) - 2) :
        /\ chunkUrlOrPath[i] = "."
        /\ chunkUrlOrPath[i + 1] = "j"
        /\ chunkUrlOrPath[i + 2] = "s"
        /\ JsTail(SubSeq(chunkUrlOrPath, i + 3, Len(chunkUrlOrPath)))

JsPaths == {p \in ChunkPaths : isJs(p)}

\* ChunkData is a chunk path or an object with a path
ChunkDatas ==
    {[typeof |-> "string", value |-> p] : p \in ChunkPaths}
        \cup {[typeof |-> "object", value |-> [path |-> p]] : p \in ChunkPaths}

RuntimeSource(chunkPath) == [type |-> SourceTypeRuntime, chunkPath |-> chunkPath]
ParentSource(parentId) == [type |-> SourceTypeParent, parentId |-> parentId]

stringifySourceInfo(source) ==
    IF source.type = SourceTypeRuntime
    THEN <<"runtime for chunk", source.chunkPath>>
    ELSE <<"parent module", source.parentId>>

\* sources a caller of loadChunk passes (the parameter is optional)
SyncSources == {Undefined, RuntimeSource(PathA), ParentSource("A")}

\* what require(resolved) throws when the chunk cannot be loaded
LoaderError == [kind |-> "Error", message |-> <<"Cannot find module">>]

\* the tables the chunks export: entries in Object.entries order, each a
\* factory or a pair [factory, otherIds]
ChunkModules(chunkPath) ==
    IF chunkPath = PathA
    THEN << [id |-> "A", array |-> FALSE, fn |-> "F1", otherIds |-> <<>>],
            [id |-> "B", array |-> FALSE, fn |-> "F1", otherIds |-> <<>>] >>
    ELSE << [id |-> "A", array |-> TRUE, fn |-> "F2", otherIds |-> <<"B", "C">>],
            [id |-> "C", array |-> TRUE, fn |-> "F2", otherIds |-> <<"B">>] >>

Range(s) == {s[i] : i \in DOMAIN s}

\* moduleCache[id] = module, chunkCache.set(chunkPath, entry)
Put(f, key, value) == [k \in DOMAIN f \cup {key} |-> IF k = key THEN value ELSE f[k]]

-----------------------------------------------------------------------------
(* Chunk loading *)

\* the body of the loop over Object.entries(chunkModules)
RegisterEntry(factories, entry) ==
    IF entry.id \in DOMAIN factories
    THEN factories
    ELSE IF entry.array
         THEN [i \in DOMAIN factories \cup {entry.id} \cup Range(entry.otherIds) |->
                  IF i \in {entry.id} \cup Range(entry.otherIds)
                  THEN entry.fn
                  ELSE factories[i]]
         ELSE (entry.id :> entry.fn) @@ factories

RECURSIVE RegisterFrom(_, _, _)
RegisterFrom(factories, chunkModules, i) ==
    IF i > Len(chunkModules)
    THEN factories
    ELSE RegisterFrom(RegisterEntry(factories, chunkModules[i]), chunkModules, i + 1)

\* loadChunkPath's loop
RegisterChunkModules(factories, chunkModules) ==
    RegisterFrom(factories, chunkModules, 1)

\* loadChunkUncached's loop
loadChunkUncached(factories, chunkModules) ==
    RegisterFrom(factories, chunkModules, 1)

\* faulty variant of ChunkLoadError: the message does not name the source
ChunkLoadErrorNoSource(chunkPath, source, cause) ==
    [kind |-> "Error",
     message |-> <<"Failed to load chunk", chunkPath>>,
     cause |-> cause]

ChunkLoadError(chunkPath, source, cause) ==
    [kind |-> "Error",
     message |-> <<"Failed to load chunk", chunkPath>> \o
                 (IF source # Undefined
                  THEN <<"from">> \o stringifySourceInfo(source)
                  ELSE <<>>),
     cause |-> cause]

unsupportedLoadChunk == [promise |-> "unsupportedLoadChunk", state |-> "resolved"]
loadedChunk == [promise |-> "loadedChunk", state |-> "resolved"]
RejectedPromise(n, reason) == [promise |-> n, state |-> "rejected", reason |-> reason]

\* a call of the runtime: its arguments, its outcome ("returned", "threw", or
\* "running" while the factory it started executes), the value returned or
\* thrown, and whether the call ran the loader (a chunk) or the factory (a module)
Call(op, arg, source, outcome, value, ran) ==
    [op |-> op, arg |-> arg, source |-> source, outcome |-> outcome,
     value |-> value, ran |-> ran]

ChunkPathOf(chunkData) ==
    IF chunkData.typeof = "string" THEN chunkData.value ELSE chunkData.value.path

\* faulty variant of SkipsLoader: the loaded-chunk set is not consulted
SkipsOnlyNonJs(chunkPath) == ~isJs(chunkPath)

\* faulty variant of SkipsLoader: a path with an entry in the chunk cache counts
\* as loaded
SkipsIfCached(chunkPath) ==
    \/ ~isJs(chunkPath)
    \/ chunkPath \in loadedChunks
    \/ chunkPath \in DOMAIN chunkCache

\* loadChunkPath: the branches that return without calling the loader
SkipsLoader(chunkPath) ==
    \/ ~isJs(chunkPath)
    \/ chunkPath \in loadedChunks

\* faulty variant of LoadedAfter: the path is added whether or not the loader
\* threw
LoadedAfterAlways(chunkPath, ok) == loadedChunks \cup {chunkPath}

\* loadedChunks.add(chunkPath) is the last statement of the try block
LoadedAfter(chunkPath, ok) ==
    IF ok THEN loadedChunks \cup {chunkPath} ELSE loadedChunks

loadChunkPath(chunkPath, source) ==
    /\ UNCHANGED sourceMapVars
    /\ ~exc.thrown
    /\ UNCHANGED <<moduleCache, chunkCache, stack, exc, invocations, asyncLoads,
                   captured, nextPromise>>
    /\ IF SkipsLoader(chunkPath)
       THEN /\ lastCall' = Call("loadChunk", chunkPath, source, "returned", Undefined, FALSE)
            /\ UNCHANGED <<moduleFactories, loadedChunks, syncCalls, syncLoaded, merged>>
       ELSE /\ syncCalls[chunkPath] < MaxLoaderCalls
            /\ syncCalls' = [syncCalls EXCEPT ![chunkPath] = @ + 1]
            \* require(resolved) returns the table of the chunk, or throws
            /\ \E ok \in BOOLEAN :
                  /\ loadedChunks' = LoadedAfter(chunkPath, ok)
                  /\ IF ok
                     THEN /\ moduleFactories' =
                                RegisterChunkModules(moduleFactories, ChunkModules(chunkPath))
                          /\ syncLoaded' = [syncLoaded EXCEPT ![chunkPath] = @ + 1]
                          /\ merged' = merged \cup {chunkPath}
                          /\ lastCall' = Call("loadChunk", chunkPath, source, "returned",
                                              Undefined, TRUE)
                     ELSE /\ lastCall' = Call("loadChunk", chunkPath, source, "threw",
                                              ChunkLoadError(chunkPath, source, LoaderError),
                                              TRUE)
                          /\ UNCHANGED <<moduleFactories, syncLoaded, merged>>

loadChunk ==
    \E chunkData \in ChunkDatas, source \in SyncSources :
        loadChunkPath(ChunkPathOf(chunkData), source)

\* faulty variant of clearChunkCache: the loaded-chunk set is cleared with the
\* chunk cache
clearChunkState ==
    /\ UNCHANGED sourceMapVars
    /\ ~exc.thrown
    /\ chunkCache' = <<>>
    /\ loadedChunks' = {}
    /\ asyncLoads' = [p \in JsPaths |-> 0]
    /\ lastCall' = Call("clearChunkCache", Undefined, Undefined, "returned", Undefined, FALSE)
    /\ UNCHANGED <<moduleFactories, moduleCache, stack, exc,
                   invocations, syncCalls, syncLoaded, merged, captured, nextPromise>>

clearChunkCache ==
    /\ UNCHANGED sourceMapVars
    /\ ~exc.thrown
    /\ chunkCache' = <<>>
    /\ asyncLoads' = [p \in JsPaths |-> 0]
    /\ lastCall' = Call("clearChunkCache", Undefined, Undefined, "returned", Undefined, FALSE)
    /\ UNCHANGED <<moduleFactories, moduleCache, loadedChunks, stack, exc,
                   invocations, syncCalls, syncLoaded, merged, captured, nextPromise>>

\* faulty variant of AsyncCached: a rejected entry is not taken from the cache
AsyncCachedResolved(chunkPath) ==
    chunkPath \in DOMAIN chunkCache /\ chunkCache[chunkPath].state = "resolved"

\* faulty variant of AsyncCached: a resolved entry is not taken from the cache
AsyncCachedRejected(chunkPath) ==
    chunkPath \in DOMAIN chunkCache /\ chunkCache[chunkPath].state = "rejected"

\* let entry = chunkCache.get(chunkPath); if (entry === undefined)
AsyncCached(chunkPath) == chunkPath \in DOMAIN chunkCache

loadChunkAsyncPath(source, chunkPath) ==
    /\ UNCHANGED sourceMapVars
    /\ ~exc.thrown
    /\ UNCHANGED <<moduleCache, loadedChunks, stack, exc, invocations, syncCalls,
                   syncLoaded, captured>>
    /\ IF ~isJs(chunkPath)
       THEN /\ lastCall' = Call("loadChunkAsync", chunkPath, source, "returned",
                                unsupportedLoadChunk, FALSE)
            /\ UNCHANGED <<moduleFactories, chunkCache, asyncLoads, merged, nextPromise>>
       ELSE IF AsyncCached(chunkPath)
       THEN /\ lastCall' = Call("loadChunkAsync", chunkPath, source, "returned",
                                chunkCache[chunkPath], FALSE)
            /\ UNCHANGED <<moduleFactories, chunkCache, asyncLoads, merged, nextPromise>>
       ELSE /\ asyncLoads' = [asyncLoads EXCEPT ![chunkPath] = @ + 1]
            /\ \/ /\ moduleFactories' =
                        loadChunkUncached(moduleFactories, ChunkModules(chunkPath))
                  /\ merged' = merged \cup {chunkPath}
                  /\ chunkCache' = Put(chunkCache, chunkPath, loadedChunk)
                  /\ lastCall' = Call("loadChunkAsync", chunkPath, source, "returned",
                                      loadedChunk, TRUE)
                  /\ UNCHANGED nextPromise
               \/ /\ nextPromise < MaxRejections
                  /\ nextPromise' = nextPromise + 1
                  /\ LET entry == RejectedPromise(nextPromise + 1,
                                     ChunkLoadError(chunkPath, source, LoaderError))
                     IN /\ chunkCache' = Put(chunkCache, chunkPath, entry)
                        /\ lastCall' = Call("loadChunkAsync", chunkPath, source,
                                            "returned", entry, TRUE)
                  /\ UNCHANGED <<moduleFactories, merged>>

\* the context binds l to loadChunkAsync with the source { Parent, id } of the
\* module being instantiated, so a caller exists once that module has a record
loadChunkAsync ==
    \E parentId \in DOMAIN moduleCache, chunkData \in ChunkDatas :
        loadChunkAsyncPath(ParentSource(parentId), ChunkPathOf(chunkData))

-----------------------------------------------------------------------------
(* Module instantiation *)

NoException == [thrown |-> FALSE, value |-> Undefined]
Thrown(value) == [thrown |-> TRUE, value |-> value]

\* if (x) on a value: undefined is falsy, objects are truthy
Truthy(value) == value # Undefined

\* faulty variant of NewModule: the record is created with loaded = true
NewModuleLoaded(id, gen) ==
    [exports |-> [object |-> "exports", of |-> id, gen |-> gen],
     error |-> Undefined,
     loaded |-> TRUE,
     id |-> id,
     namespaceObject |-> Undefined,
     gen |-> gen]

\* the module object created by instantiateModule; gen tells apart the objects
\* created for one id (the identity of the record and of its exports object)
NewModule(id, gen) ==
    [exports |-> [object |-> "exports", of |-> id, gen |-> gen],
     error |-> Undefined,
     loaded |-> FALSE,
     id |-> id,
     namespaceObject |-> Undefined,
     gen |-> gen]

\* faulty variant of FactoryMissing: compares the factory with null, which a
\* missing id never is
FactoryIsNull(id) == id \in DOMAIN moduleFactories /\ moduleFactories[id] = "null"

\* typeof moduleFactory !== 'function'
FactoryMissing(id) == id \notin DOMAIN moduleFactories

\* faulty variant of ModuleFactoryMissing: the message gives no reason
ModuleFactoryMissingNoReason(id, source) ==
    [kind |-> "Error",
     message |-> <<"Module", id, "was instantiated",
                   "but the module factory is not available">>]

\* the error of instantiateModule when the factory is not available
ModuleFactoryMissing(id, source) ==
    [kind |-> "Error",
     message |-> <<"Module", id, "was instantiated">> \o
                 (IF source.type = SourceTypeRuntime
                  THEN <<"as a runtime entry of chunk", source.chunkPath>>
                  ELSE <<"because it was required from module", source.parentId>>) \o
                 <<"but the module factory is not available">>]

\* the values a factory may throw: an Error object, or a falsy value
\* (throw undefined)
FactoryError(id, gen) == [kind |-> "Error", message |-> <<"thrown by module", id, gen>>]
ThrownValues(id, gen) == {FactoryError(id, gen), Undefined}

\* the caller of a call of the runtime: the factory on top of the stack, or
\* the host when no factory is running
InFactory == stack # <<>>
Top == stack[Len(stack)]
Pop == SubSeq(stack, 1, Len(stack) - 1)
OnStack(id) == \E i \in DOMAIN stack : stack[i].id = id

\* the factory on top of the stack makes one more call
CountCall ==
    IF InFactory
    THEN [stack EXCEPT ![Len(stack)].calls = @ + 1]
    ELSE stack
MayCall == InFactory => Top.calls < MaxRequires

\* a call that throws: the exception reaches the running factory, or the host
Raise(op, id, source, error) ==
    /\ lastCall' = Call(op, id, source, "threw", error, FALSE)
    /\ exc' = IF InFactory THEN Thrown(error) ELSE NoException

\* a call that returns a cached record
ReturnCached(op, id, source) ==
    /\ lastCall' = Call(op, id, source, "returned", moduleCache[id], FALSE)
    /\ exc' = NoException

instantiateModule(id, source, op) ==
    IF FactoryMissing(id)
    THEN /\ Raise(op, id, source, ModuleFactoryMissing(id, source))
         /\ stack' = CountCall
         /\ UNCHANGED <<moduleCache, invocations, captured>>
    ELSE /\ moduleCache' = Put(moduleCache, id, NewModule(id, invocations[id] + 1))
         /\ invocations' = [invocations EXCEPT ![id] = @ + 1]
         /\ stack' = Append(CountCall, [id |-> id, op |-> op, source |-> source, calls |-> 0])
         /\ lastCall' = Call(op, id, source, "running", Undefined, TRUE)
         /\ UNCHANGED <<exc, captured>>

\* faulty variant of CachedForParent: a record counts only once it is loaded
CachedAndLoaded(id) == id \in DOMAIN moduleCache /\ moduleCache[id].loaded

\* const module = moduleCache[id]; if (module)
CachedForParent(id) == id \in DOMAIN moduleCache

getOrInstantiateModuleFromParent(id, sourceModule) ==
    /\ UNCHANGED sourceMapVars
    /\ UNCHANGED <<moduleFactories, loadedChunks, chunkCache, syncCalls, syncLoaded,
                   asyncLoads, merged, nextPromise>>
    /\ IF CachedForParent(id)
       THEN /\ ReturnCached("parent", id, ParentSource(sourceModule.id))
            /\ stack' = CountCall
            /\ captured' = IF moduleCache[id].loaded \/ ~OnStack(id)
                           THEN captured
                           ELSE captured \cup {[by |-> sourceModule.id, of |-> id,
                                                exports |-> moduleCache[id].exports]}
            /\ UNCHANGED <<moduleCache, invocations>>
       ELSE instantiateModule(id, ParentSource(sourceModule.id), "parent")

\* commonJsRequire.bind(null, module): a require made by the running factory
Require ==
    /\ InFactory
    /\ ~exc.thrown
    /\ MayCall
    /\ \E id \in ModuleIds : getOrInstantiateModuleFromParent(id, moduleCache[Top.id])

instantiateRuntimeModule(moduleId, chunkPath) ==
    instantiateModule(moduleId, RuntimeSource(chunkPath), "runtime")

\* if (module.error)
HasError(module) == Truthy(module.error)

\* faulty variant of CachedForRuntime: a record with an error is not taken
\* from the cache
CachedUnlessFailed(moduleId) ==
    moduleId \in DOMAIN moduleCache /\ ~HasError(moduleCache[moduleId])

\* const module = moduleCache[moduleId]; if (module)
CachedForRuntime(moduleId) == moduleId \in DOMAIN moduleCache

getOrInstantiateRuntimeModule(moduleId, chunkPath) ==
    /\ UNCHANGED sourceMapVars
    /\ UNCHANGED <<moduleFactories, loadedChunks, chunkCache, syncCalls, syncLoaded,
                   asyncLoads, merged, nextPromise>>
    /\ IF CachedForRuntime(moduleId)
       THEN /\ IF HasError(moduleCache[moduleId])
               THEN Raise("runtime", moduleId, RuntimeSource(chunkPath),
                          moduleCache[moduleId].error)
               ELSE ReturnCached("runtime", moduleId, RuntimeSource(chunkPath))
            /\ stack' = CountCall
            /\ UNCHANGED <<moduleCache, invocations, captured>>
       ELSE instantiateRuntimeModule(moduleId, chunkPath)

\* the exported entry point, called by the host or from a running factory
RuntimeEntry ==
    /\ ~exc.thrown
    /\ MayCall
    /\ \E moduleId \in ModuleIds, chunkPath \in JsPaths :
           getOrInstantiateRuntimeModule(moduleId, chunkPath)

\* moduleFactory.call returned: module.loaded = true; return module
FactoryReturns ==
    /\ UNCHANGED sourceMapVars
    /\ InFactory
    /\ ~exc.thrown
    /\ LET module == [moduleCache[Top.id] EXCEPT !.loaded = TRUE]
       IN /\ moduleCache' = Put(moduleCache, Top.id, module)
          /\ lastCall' = Call(Top.op, Top.id, Top.source, "returned", module, TRUE)
    /\ stack' = Pop
    /\ UNCHANGED <<moduleFactories, loadedChunks, chunkCache, exc, invocations,
                   syncCalls, syncLoaded, asyncLoads, merged, captured, nextPromise>>

\* faulty variant of WithError: the error is rethrown but not recorded
WithoutError(module, error) == module

\* module.error = error
WithError(module, error) == [module EXCEPT !.error = error]

\* catch (error) { module.error = error; throw error }
CatchAndRethrow(error) ==
    /\ UNCHANGED sourceMapVars
    /\ moduleCache' = Put(moduleCache, Top.id, WithError(moduleCache[Top.id], error))
    /\ lastCall' = Call(Top.op, Top.id, Top.source, "threw", error, TRUE)
    /\ stack' = Pop
    /\ exc' = IF Len(stack) > 1 THEN Thrown(error) ELSE NoException
    /\ UNCHANGED <<moduleFactories, loadedChunks, chunkCache, invocations,
                   syncCalls, syncLoaded, asyncLoads, merged, captured, nextPromise>>

\* the running factory throws a value of its own
FactoryThrows ==
    /\ InFactory
    /\ ~exc.thrown
    /\ \E error \in ThrownValues(Top.id, moduleCache[Top.id].gen) : CatchAndRethrow(error)

\* the running factory lets the exception of a nested call escape
FactoryPropagates ==
    /\ InFactory
    /\ exc.thrown
    /\ CatchAndRethrow(exc.value)

\* the running factory catches the exception of a nested call and goes on
FactoryCatches ==
    /\ UNCHANGED sourceMapVars
    /\ InFactory
    /\ exc.thrown
    /\ exc' = NoException
    /\ UNCHANGED <<moduleFactories, moduleCache, loadedChunks, chunkCache, stack,
                   lastCall, invocations, syncCalls, syncLoaded, asyncLoads, merged,
                   captured, nextPromise>>

-----------------------------------------------------------------------------
InitRuntime ==
    /\ moduleFactories = <<>>
    /\ moduleCache = <<>>
    /\ loadedChunks = {}
    /\ chunkCache = <<>>
    /\ stack = <<>>
    /\ exc = NoException
    /\ lastCall = Call("none", Undefined, Undefined, "none", Undefined, FALSE)
    /\ invocations = [id \in ModuleIds |-> 0]
    /\ syncCalls = [p \in JsPaths |-> 0]
    /\ syncLoaded = [p \in JsPaths |-> 0]
    /\ asyncLoads = [p \in JsPaths |-> 0]
    /\ merged = {}
    /\ captured = {}
    /\ nextPromise = 0

\* no call of a stack-frame helper has been made
NotCalled == [kind |-> "not called"]
InitNoFrames ==
    /\ payload = Undefined
    /\ position = Undefined
    /\ applicable = NotCalled
    /\ frames = <<>>
    /\ ignoreFrameCalls = NotCalled

Init == InitRuntime /\ InitNoFrames

\* the whole runtime
Next ==
    \/ loadChunk
    \/ loadChunkAsync
    \/ clearChunkCache
    \/ RuntimeEntry
    \/ Require
    \/ FactoryReturns
    \/ FactoryThrows
    \/ FactoryPropagates
    \/ FactoryCatches

Spec == Init /\ [][Next]_vars

\* The state space of Spec is the product of the state of the chunk loaders
\* and the state of the instantiations.  The two halves are explored
\* separately, each with the other half reduced to what the first needs.

\* the host loads the chunk a.js (the factories of A and B; C has none)
HostLoadsChunk == loadChunkPath(PathA, Undefined)

\* instantiation: every call sequence of the two lookups, re-entrant calls
\* included, over the factories of one chunk
NextModules ==
    \/ HostLoadsChunk
    \/ RuntimeEntry
    \/ Require
    \/ FactoryReturns
    \/ FactoryThrows
    \/ FactoryPropagates
    \/ FactoryCatches

SpecModules == Init /\ [][NextModules]_vars

\* the steps of a running factory
FactoryStep ==
    \/ InFactory /\ RuntimeEntry
    \/ Require
    \/ FactoryReturns
    \/ FactoryThrows
    \/ FactoryPropagates
    \/ FactoryCatches

\* a factory is called synchronously and nothing pre-empts it: while a factory
\* is running, its next step is taken
FairModules == SpecModules /\ WF_vars(FactoryStep)

\* the host instantiates the runtime entry (the first module) of a chunk it
\* has loaded
EntryOfChunk ==
    /\ ~InFactory
    /\ \E chunkPath \in loadedChunks :
           getOrInstantiateRuntimeModule(ChunkModules(chunkPath)[1].id, chunkPath)

\* chunk loading: every sequence of loadChunk, loadChunkAsync and
\* clearChunkCache, the asynchronous loads made by an entry module during and
\* after its instantiation
NextChunks ==
    \/ loadChunk
    \/ loadChunkAsync
    \/ clearChunkCache
    \/ EntryOfChunk
    \/ FactoryReturns

SpecChunks == Init /\ [][NextChunks]_vars

\* the host instantiates any module of chunk a.js as a runtime entry, once
\* the chunk is loaded
EntryOfLoadedChunk ==
    /\ ~InFactory
    /\ PathA \in loadedChunks
    /\ \E i \in DOMAIN ChunkModules(PathA) :
           getOrInstantiateRuntimeModule(ChunkModules(PathA)[i].id, PathA)

\* callers load chunk a.js synchronously, with or without a source
LoadsChunk == \E source \in SyncSources : loadChunkPath(PathA, source)

\* chunk loading with several callers: both modules of chunk a.js are
\* instantiated, so that asynchronous loads come from different modules
NextCallers ==
    \/ LoadsChunk
    \/ loadChunkAsync
    \/ clearChunkCache
    \/ EntryOfLoadedChunk
    \/ FactoryReturns

SpecCallers == Init /\ [][NextCallers]_vars

-----------------------------------------------------------------------------
(* findApplicableSourceMapPayload (source-maps.ts) *)

Null == [kind |-> "null"]

\* a basic source map payload; file tells the payloads apart
BasicSourceMapPayload(file) == [version |-> 3, file |-> file, mappings |-> "AAAA"]

Offsets == [line : 0..MaxLine, column : 0..MaxColumn]

\* sections must be sorted by offset (source-maps.ts:74)
OffsetBefore(a, b) ==
    a.line < b.line \/ (a.line = b.line /\ a.column <= b.column)

SortedOffsets ==
    {o \in UNION {[1..n -> Offsets] : n \in 0..MaxSections} :
        \A i \in 1..(Len(o) - 1) : OffsetBefore(o[i], o[i + 1])}

\* an index source map: the map of the i-th section is the payload named i
IndexSourceMap(offsets) ==
    [version |-> 3,
     file |-> 0,
     sections |-> [i \in DOMAIN offsets |->
                      [offset |-> offsets[i], map |-> BasicSourceMapPayload(i)]]]

Payloads ==
    {BasicSourceMapPayload(0)} \cup {IndexSourceMap(o) : o \in SortedOffsets}

Positions == [line0 : 0..MaxLine, column0 : 0..MaxColumn]

\* faulty variant of OffsetApplies: line and column are compared one by one
OffsetAppliesEach(offset, line0, column0) ==
    offset.line <= line0 /\ offset.column <= column0

\* offset.line < line0 || (offset.line === line0 && offset.column <= column0)
OffsetApplies(offset, line0, column0) ==
    \/ offset.line < line0
    \/ (offset.line = line0 /\ offset.column <= column0)

\* the while loop; left, right and middle are indices from 0 as in the code
RECURSIVE SearchSections(_, _, _, _, _, _)
SearchSections(sections, line0, column0, left, right, result) ==
    IF left <= right
    THEN LET middle == (left + right) \div 2
             section == sections[middle + 1]
         IN IF OffsetApplies(section.offset, line0, column0)
            THEN SearchSections(sections, line0, column0, middle + 1, right, section)
            ELSE SearchSections(sections, line0, column0, left, middle - 1, result)
    ELSE result

findApplicableSourceMapPayload(line0, column0, p) ==
    IF "sections" \in DOMAIN p
    THEN IF Len(p.sections) = 0
         THEN Undefined
         ELSE LET result == SearchSections(p.sections, line0, column0,
                                           0, Len(p.sections) - 1, Null)
              IN IF result = Null THEN Undefined ELSE result.map
    ELSE p

\* a caller asks for the payload applicable to a frame
FindApplicable ==
    /\ applicable = NotCalled
    /\ payload # Undefined
    /\ applicable' = findApplicableSourceMapPayload(position.line0, position.column0,
                                                    payload)
    /\ UNCHANGED <<moduleFactories, moduleCache, loadedChunks, chunkCache, stack, exc,
                   lastCall, invocations, syncCalls, syncLoaded, asyncLoads, merged,
                   captured, nextPromise, payload, position, frames, ignoreFrameCalls>>

\* one call on every payload and frame position within the bounds
InitSourceMaps ==
    /\ InitRuntime
    /\ payload \in Payloads
    /\ position \in Positions
    /\ applicable = NotCalled
    /\ frames = <<>>
    /\ ignoreFrameCalls = NotCalled

NextSourceMaps == FindApplicable

SpecSourceMaps == InitSourceMaps /\ [][NextSourceMaps]_vars

-----------------------------------------------------------------------------
(* ignoreListAnonymousStackFramesIfSandwiched (source-maps.ts) *)

\* methodName.startsWith(prefix), on strings as sequences of characters
StartsWith(methodName, prefix) ==
    /\ Len(methodName) >= Len(prefix)
    /\ SubSeq(methodName, 1, Len(prefix)) = prefix

NativePrefixes ==
    { <<"J", "S", "O", "N", ".">>,
      <<"F", "u", "n", "c", "t", "i", "o", "n", ".">>,
      <<"P", "r", "o", "m", "i", "s", "e", ".">>,
      <<"A", "r", "r", "a", "y", ".">>,
      <<"S", "e", "t", ".">>,
      <<"M", "a", "p", ".">> }

isAnonymousFrameLikelyJSNative(methodName) ==
    \E prefix \in NativePrefixes : StartsWith(methodName, prefix)

\* method names of frames: JSON.p(arse), Map.g(et), and JSON, which has no
\* native prefix
MethodNames ==
    { <<"J", "S", "O", "N", ".", "p">>,
      <<"M", "a", "p", ".", "g">>,
      <<"J", "S", "O", "N">> }

\* a frame with the values the three callbacks isAnonymousFrame,
\* isIgnoredFrame and getMethodName give for it
Frames == [anonymous : BOOLEAN, ignored : BOOLEAN, methodName : MethodNames]
FrameLists == UNION {[1..n -> Frames] : n \in 0..MaxFrames}

isAnonymousFrame(frame) == frame.anonymous
isIgnoredFrame(frame) == frame.ignored
getMethodName(frame) == frame.methodName

\* isAnonymousFrame(frame) && isAnonymousFrameLikelyJSNative(getMethodName(frame))
AnonymousNative(frame) ==
    isAnonymousFrame(frame) /\ isAnonymousFrameLikelyJSNative(getMethodName(frame))

\* the inner loop from j (indices from 0 as in the code): the value of j and
\* of ignoreSandwich when it ends
RECURSIVE ScanNextFrames(_, _)
ScanNextFrames(fs, j) ==
    IF j < Len(fs)
    THEN LET nextFrame == fs[j + 1]
         IN IF AnonymousNative(nextFrame)
            THEN ScanNextFrames(fs, j + 1)
            ELSE IF isIgnoredFrame(nextFrame)
            THEN [j |-> j, ignoreSandwich |-> TRUE]
            ELSE ScanNextFrames(fs, j + 1)
    ELSE [j |-> j, ignoreSandwich |-> FALSE]

\* for (i; i < j; i++) ignoreFrame(frames[i]): the indices passed
RECURSIVE IgnoreFromTo(_, _)
IgnoreFromTo(i, j) ==
    IF i < j THEN <<i>> \o IgnoreFromTo(i + 1, j) ELSE <<>>

\* the outer loop from i: the indices (from 0) of the frames passed to
\* ignoreFrame, in call order
RECURSIVE IgnoreListFrom(_, _)
IgnoreListFrom(fs, i) ==
    IF i < Len(fs)
    THEN LET currentFrame == fs[i + 1]
         IN IF ~AnonymousNative(currentFrame)
            THEN IgnoreListFrom(fs, i + 1)
            ELSE LET previousFrameIsIgnored == isIgnoredFrame(fs[i])
                 IN IF previousFrameIsIgnored /\ i < Len(fs) - 1
                    THEN LET scan == ScanNextFrames(fs, i + 1)
                         IN IF scan.ignoreSandwich
                            THEN IgnoreFromTo(i, scan.j) \o IgnoreListFrom(fs, scan.j + 1)
                            ELSE IgnoreListFrom(fs, i + 1)
                    ELSE IgnoreListFrom(fs, i + 1)
    ELSE <<>>

ignoreListAnonymousStackFramesIfSandwiched(fs) == IgnoreListFrom(fs, 1)

\* a caller filters the frames of a stack
IgnoreList ==
    /\ ignoreFrameCalls = NotCalled
    /\ ignoreFrameCalls' =
           [kind |-> "called",
            indices |-> ignoreListAnonymousStackFramesIfSandwiched(frames)]
    /\ UNCHANGED <<moduleFactories, moduleCache, loadedChunks, chunkCache, stack, exc,
                   lastCall, invocations, syncCalls, syncLoaded, asyncLoads, merged,
                   captured, nextPromise, payload, position, applicable, frames>>

\* one call on every list of frames within the bounds
InitFrames ==
    /\ InitRuntime
    /\ payload = Undefined
    /\ position = Undefined
    /\ applicable = NotCalled
    /\ frames \in FrameLists
    /\ ignoreFrameCalls = NotCalled

NextFrames == IgnoreList

SpecFrames == InitFrames /\ [][NextFrames]_vars

-----------------------------------------------------------------------------
(* Properties of module instantiation, checked under SpecModules *)

ModuleOps == {"runtime", "parent"}

\* the factory of id ran and threw: its record is neither loaded nor running
FactoryThrew(id) ==
    /\ id \in DOMAIN moduleCache
    /\ ~moduleCache[id].loaded
    /\ ~OnStack(id)

\* C1: the factory of an id is invoked at most once and one record is ever
\* created for it: the record in the cache is the first one created, and every
\* call that returns a record for the id returns that record, re-entrant calls
\* included.
C1_OneRecordPerId ==
    /\ \A id \in ModuleIds : invocations[id] <= 1
    /\ \A id \in DOMAIN moduleCache :
           /\ id \in DOMAIN moduleFactories
           /\ invocations[id] = 1
           /\ moduleCache[id].id = id
           /\ moduleCache[id].gen = 1
    /\ (lastCall.op \in ModuleOps /\ lastCall.outcome = "returned") =>
           /\ lastCall.value.id = lastCall.arg
           /\ lastCall.value.gen = 1
           /\ moduleCache[lastCall.arg].gen = 1

\* a re-entrant require of a module whose factory is running is answered from
\* the cache, while the factory of another module has run once and failed
C1_Witness ==
    /\ lastCall.op = "parent"
    /\ lastCall.outcome = "returned"
    /\ ~lastCall.ran
    /\ OnStack(lastCall.arg)
    /\ \E id \in ModuleIds : FactoryThrew(id) /\ invocations[id] = 1

\* C2: instantiating an id that has no registered factory, by the runtime-entry
\* path or by the parent path, throws the ModuleFactoryMissing error and leaves
\* the module cache unchanged, with no record for the id.
C2_MissingFactory ==
    [][(lastCall'.op \in ModuleOps /\ lastCall'.arg \notin DOMAIN moduleFactories) =>
          /\ lastCall'.outcome = "threw"
          /\ lastCall'.value = ModuleFactoryMissing(lastCall'.arg, lastCall'.source)
          /\ ~lastCall'.ran
          /\ moduleCache' = moduleCache
          /\ invocations' = invocations
          /\ lastCall'.arg \notin DOMAIN moduleCache']_vars

\* a require of C, which has no factory, made by the running factory of A
C2_Witness ==
    /\ lastCall.op = "parent"
    /\ lastCall.outcome = "threw"
    /\ lastCall.arg \notin DOMAIN moduleFactories
    /\ lastCall.value = ModuleFactoryMissing("C", ParentSource("A"))
    /\ InFactory
    /\ exc.thrown
    /\ DOMAIN moduleFactories # {}

\* C3: in a dependency cycle, the require of a module whose factory is still
\* running returns its placeholder record (loaded = false) and does not run
\* the factory again, and the exports object the requirer obtained is the
\* exports object of the module ever after, also when both factories are done.
C3_CircularRequire ==
    /\ \A i, j \in DOMAIN stack : stack[i].id = stack[j].id => i = j
    /\ (lastCall.op = "parent" /\ lastCall.outcome = "returned" /\ OnStack(lastCall.arg)) =>
           /\ ~lastCall.ran
           /\ ~lastCall.value.loaded
           /\ invocations[lastCall.arg] = 1
    /\ \A c \in captured :
           /\ c.of \in DOMAIN moduleCache
           /\ moduleCache[c.of].exports = c.exports
           /\ invocations[c.of] = 1

\* A required B, B required A back and got A's exports; both have completed
C3_Witness ==
    /\ stack = <<>>
    /\ \E c \in captured :
           /\ c.of = "A"
           /\ c.by = "B"
           /\ moduleCache["A"].loaded
           /\ moduleCache["B"].loaded
           /\ moduleCache["A"].exports = c.exports

\* C4: for a module whose factory threw, a later getOrInstantiateModuleFromParent
\* returns the cached broken record without throwing, a later
\* getOrInstantiateRuntimeModule throws the recorded error, and neither runs the
\* factory again.
C4_Asymmetry ==
    /\ \A id \in ModuleIds : FactoryThrew(id) => invocations[id] = 1
    /\ (lastCall.op = "parent" /\ ~lastCall.ran /\ FactoryThrew(lastCall.arg)) =>
           /\ lastCall.outcome = "returned"
           /\ lastCall.value = moduleCache[lastCall.arg]
    /\ (lastCall.op = "runtime" /\ ~lastCall.ran /\ FactoryThrew(lastCall.arg)) =>
           /\ lastCall.outcome = "threw"
           /\ lastCall.value = moduleCache[lastCall.arg].error

-----------------------------------------------------------------------------
(* Properties of chunk loading, checked under SpecChunks *)

ExecutablePaths == {PathA, PathB}
NonExecutablePaths == {PathCss, PathJsx}

\* C5: an id that has a registered factory keeps that factory whatever chunk is
\* loaded later, be the id a primary id or an alias id of the later chunk.
C5_FirstWriterWins ==
    [][\A id \in DOMAIN moduleFactories :
          /\ id \in DOMAIN moduleFactories'
          /\ moduleFactories'[id] = moduleFactories[id]]_vars

\* C6: once a chunk with a compressed entry [factory, otherIds] under a primary
\* id has been loaded, the primary id and all its alias ids are registered with
\* one identical factory.
C6_AliasCorrectness ==
    \A p \in merged : \A i \in DOMAIN ChunkModules(p) :
        LET entry == ChunkModules(p)[i]
        IN entry.array =>
              /\ entry.id \in DOMAIN moduleFactories
              /\ \A other \in Range(entry.otherIds) :
                    /\ other \in DOMAIN moduleFactories
                    /\ moduleFactories[other] = moduleFactories[entry.id]

\* C7: a loadChunkAsync for a path whose cache entry is a rejected promise
\* returns that very promise and does not call the loader; clearChunkCache
\* empties the cache, and a loadChunkAsync for a path with no cache entry calls
\* the loader.
C7_NegativeCaching ==
    [][/\ lastCall'.op = "loadChunkAsync" =>
             LET p == lastCall'.arg
             IN /\ (p \in DOMAIN chunkCache /\ chunkCache[p].state = "rejected") =>
                       /\ lastCall'.outcome = "returned"
                       /\ lastCall'.value = chunkCache[p]
                       /\ ~lastCall'.ran
                       /\ UNCHANGED <<chunkCache, asyncLoads, moduleFactories, nextPromise>>
                /\ (p \in ExecutablePaths /\ p \notin DOMAIN chunkCache) =>
                       /\ lastCall'.ran
                       /\ asyncLoads'[p] = asyncLoads[p] + 1
                       /\ lastCall'.value = chunkCache'[p]
       /\ lastCall'.op = "clearChunkCache" => DOMAIN chunkCache' = {}]_vars

\* a load was rejected, the cache was cleared, the load was tried and rejected
\* again, and a later call got the second rejected promise from the cache
C7_Witness ==
    /\ lastCall.op = "loadChunkAsync"
    /\ ~lastCall.ran
    /\ lastCall.value.state = "rejected"
    /\ lastCall.value.promise = 2
    /\ chunkCache[lastCall.arg] = lastCall.value

\* C8 as stated: the synchronous path calls the loader exactly once for every
\* path in the loaded-chunk set.
C8_LoaderCalledOnce ==
    \A p \in ExecutablePaths : p \in loadedChunks => syncCalls[p] = 1

\* C8: a loadChunk for a path in the loaded-chunk set returns without calling
\* the loader and leaves the factory table and the loaded-chunk set unchanged;
\* the loader returns the table of a path to the synchronous path exactly once
\* if the path is in the loaded-chunk set and never otherwise, and a path stays
\* in the set.
C8_SyncIdempotent ==
    [][\A p \in ExecutablePaths :
          /\ (p \in loadedChunks /\ lastCall'.op = "loadChunk" /\ lastCall'.arg = p) =>
                 /\ lastCall'.outcome = "returned"
                 /\ ~lastCall'.ran
                 /\ UNCHANGED <<moduleFactories, loadedChunks, syncCalls, syncLoaded>>
          /\ syncLoaded'[p] = IF p \in loadedChunks' THEN 1 ELSE 0
          /\ p \in loadedChunks => p \in loadedChunks']_vars

\* the loader failed once for a path, then loaded it, and a third loadChunk for
\* the path was a no-op
C8_Witness ==
    /\ lastCall.op = "loadChunk"
    /\ lastCall.arg \in loadedChunks
    /\ ~lastCall.ran
    /\ syncCalls[lastCall.arg] = 2
    /\ syncLoaded[lastCall.arg] = 1

\* C9: a loadChunk whose loader call fails throws the chunk-load error that
\* wraps the cause, does not add the path to the loaded-chunk set and caches
\* nothing, and every loadChunk for a JS path that is not in the loaded-chunk
\* set calls the loader (again).
C9_SyncFailure ==
    [][lastCall'.op = "loadChunk" =>
          /\ lastCall'.outcome = "threw" =>
                 /\ lastCall'.ran
                 /\ lastCall'.value =
                        ChunkLoadError(lastCall'.arg, lastCall'.source, LoaderError)
                 /\ lastCall'.value.cause = LoaderError
                 /\ lastCall'.arg \notin loadedChunks'
                 /\ UNCHANGED <<loadedChunks, moduleFactories, chunkCache>>
          /\ lastCall'.ran =>
                 (lastCall'.outcome = "threw" <=> lastCall'.arg \notin loadedChunks')
          /\ (lastCall'.arg \in ExecutablePaths /\ lastCall'.arg \notin loadedChunks) =>
                 /\ lastCall'.ran
                 /\ syncCalls'[lastCall'.arg] = syncCalls[lastCall'.arg] + 1]_vars

\* the second loadChunk for a path failed like the first
C9_Witness ==
    /\ lastCall.op = "loadChunk"
    /\ lastCall.outcome = "threw"
    /\ lastCall.arg \notin loadedChunks
    /\ syncCalls[lastCall.arg] = 2
    /\ syncLoaded[lastCall.arg] = 0

\* C10: loadChunk and loadChunkAsync for a path that is not a JS chunk return
\* normally (loadChunkAsync a resolved promise), do not call the loader and
\* leave the factory table, the loaded-chunk set and the chunk cache unchanged.
C10_NonJsNoOp ==
    [][(lastCall'.op \in {"loadChunk", "loadChunkAsync"}
            /\ lastCall'.arg \in NonExecutablePaths) =>
          /\ lastCall'.outcome = "returned"
          /\ ~lastCall'.ran
          /\ lastCall'.op = "loadChunk" => lastCall'.value = Undefined
          /\ lastCall'.op = "loadChunkAsync" => lastCall'.value.state = "resolved"
          /\ UNCHANGED <<moduleFactories, loadedChunks, chunkCache, syncCalls,
                         syncLoaded, asyncLoads, merged, nextPromise>>]_vars

\* a stylesheet chunk is loaded asynchronously when factories are registered
\* and the chunk cache has an entry
C10_Witness ==
    /\ lastCall.op = "loadChunkAsync"
    /\ lastCall.arg = PathCss
    /\ lastCall.value = unsupportedLoadChunk
    /\ DOMAIN chunkCache # {}
    /\ DOMAIN moduleFactories # {}

-----------------------------------------------------------------------------
(* Further properties of module instantiation, checked under SpecModules *)

\* C11: when the factory of a module throws, the thrown value is stored as the
\* error of its record, the record stays in the module cache with loaded =
\* false, and the same value is thrown to the caller of the instantiation: to
\* the factory that required the module, or to the host.
C11_FactoryThrows ==
    [][(Len(stack') < Len(stack) /\ lastCall'.outcome = "threw") =>
          LET id == Top.id
          IN /\ lastCall'.op = Top.op
             /\ lastCall'.arg = id
             /\ lastCall'.ran
             /\ exc.thrown => lastCall'.value = exc.value
             /\ id \in DOMAIN moduleCache'
             /\ moduleCache'[id].error = lastCall'.value
             /\ ~moduleCache'[id].loaded
             /\ moduleCache'[id].gen = moduleCache[id].gen
             /\ moduleCache'[id].exports = moduleCache[id].exports
             /\ exc' = IF stack' # <<>> THEN Thrown(lastCall'.value) ELSE NoException]_vars

\* the factory of a required module threw an Error: it is recorded and in
\* flight in the factory that required it
C11_Witness ==
    /\ lastCall.op = "parent"
    /\ lastCall.outcome = "threw"
    /\ lastCall.ran
    /\ lastCall.value = FactoryError(lastCall.arg, 1)
    /\ moduleCache[lastCall.arg].error = lastCall.value
    /\ InFactory
    /\ exc = Thrown(lastCall.value)

\* the state of the record of id, from a module cache and a stack of running
\* factories
ModuleState(cache, running, id) ==
    IF id \notin DOMAIN cache THEN "Uninstantiated"
    ELSE IF cache[id].loaded THEN "Loaded"
    ELSE IF \E i \in DOMAIN running : running[i].id = id THEN "Instantiating"
    ELSE "Failed"

StateNow(id) == ModuleState(moduleCache, stack, id)

\* C12: the record of a module only moves Uninstantiated -> Instantiating ->
\* Loaded or Failed. A new record has loaded = false and no error; Loaded and
\* Failed are terminal: loaded never goes from true to false, a recorded error
\* is never cleared or replaced, a Failed record never becomes Loaded, and no
\* record is removed or replaced by another one.
C12_StateMachine ==
    [][\A id \in ModuleIds :
          LET before == StateNow(id)
              after == ModuleState(moduleCache', stack', id)
          IN /\ before = "Uninstantiated" =>
                    /\ after \in {"Uninstantiated", "Instantiating"}
                    /\ after = "Instantiating" =>
                           ~HasError(moduleCache'[id]) /\ ~moduleCache'[id].loaded
             /\ before = "Instantiating" =>
                    /\ after \in {"Instantiating", "Loaded", "Failed"}
                    /\ after = "Instantiating" => moduleCache'[id] = moduleCache[id]
                    /\ after = "Loaded" => ~HasError(moduleCache'[id])
             /\ before \in {"Loaded", "Failed"} =>
                    /\ after = before
                    /\ moduleCache'[id] = moduleCache[id]
             /\ id \in DOMAIN moduleCache =>
                    /\ id \in DOMAIN moduleCache'
                    /\ moduleCache'[id].gen = moduleCache[id].gen
                    /\ moduleCache[id].loaded => moduleCache'[id].loaded
                    /\ HasError(moduleCache[id]) =>
                           moduleCache'[id].error = moduleCache[id].error]_vars

\* a module whose factory threw an Error has been required again by a running
\* factory, which got the record with its error
C12_Witness ==
    /\ lastCall.op = "parent"
    /\ ~lastCall.ran
    /\ StateNow(lastCall.arg) = "Failed"
    /\ HasError(moduleCache[lastCall.arg])
    /\ lastCall.outcome = "returned"
    /\ lastCall.value = moduleCache[lastCall.arg]
    /\ \E id \in ModuleIds : StateNow(id) = "Instantiating"

\* C14: the record of a module is in the module cache, with loaded = false,
\* from the start of its factory and for as long as the factory runs; loaded
\* becomes true only in the step in which the factory returns normally. So a
\* record handed to a caller with loaded = true belongs to a module whose
\* factory has completed, and a dependent of an acyclic chain never sees
\* loaded = true on a module whose factory is still running.
C14_LoadedAfterFactory ==
    [][/\ \A i \in DOMAIN stack' :
             /\ stack'[i].id \in DOMAIN moduleCache'
             /\ ~moduleCache'[stack'[i].id].loaded
       /\ lastCall'.outcome = "running" =>
             /\ Top'.id = lastCall'.arg
             /\ lastCall'.arg \in DOMAIN moduleCache'
       /\ \A id \in DOMAIN moduleCache' :
             (moduleCache'[id].loaded /\ ~(id \in DOMAIN moduleCache /\ moduleCache[id].loaded))
                 => /\ InFactory
                    /\ Top.id = id
                    /\ ~exc.thrown
                    /\ stack' = Pop
                    /\ invocations[id] = 1
                    /\ lastCall' = Call(Top.op, id, Top.source, "returned", moduleCache'[id], TRUE)
       /\ (lastCall'.op \in ModuleOps /\ lastCall'.outcome = "returned" /\ lastCall'.value.loaded)
             => /\ ~(\E i \in DOMAIN stack' : stack'[i].id = lastCall'.arg)
                /\ invocations'[lastCall'.arg] = 1]_vars

\* the factory of A required B, the factory of B ran and returned, and A,
\* still running and not loaded, got the record of B with loaded = true
C14_Witness ==
    /\ OnStack("A")
    /\ ~moduleCache["A"].loaded
    /\ "B" \in DOMAIN moduleCache
    /\ lastCall = Call("parent", "B", ParentSource("A"), "returned", moduleCache["B"], TRUE)
    /\ moduleCache["B"].loaded
    /\ ~OnStack("B")

\* C17: the error thrown for a module without a factory tells why the module
\* was instantiated: "as a runtime entry of chunk X", with the chunk path
\* passed to getOrInstantiateRuntimeModule, or "because it was required from
\* module Y", where Y is the module whose factory made the require: the
\* immediate parent, not the entry at the bottom of the stack.
C17_MissingFactoryProvenance ==
    [][(/\ lastCall'.op \in ModuleOps
        /\ lastCall'.outcome = "threw"
        /\ ~lastCall'.ran
        /\ lastCall'.arg \notin DOMAIN moduleFactories) =>
          /\ lastCall'.value.kind = "Error"
          /\ IF lastCall'.op = "runtime"
             THEN /\ lastCall'.source.type = SourceTypeRuntime
                  /\ lastCall'.source.chunkPath \in ExecutablePaths
                  /\ lastCall'.value.message =
                         <<"Module", lastCall'.arg, "was instantiated",
                           "as a runtime entry of chunk", lastCall'.source.chunkPath,
                           "but the module factory is not available">>
             ELSE /\ InFactory
                  /\ lastCall'.source = ParentSource(Top.id)
                  /\ lastCall'.value.message =
                         <<"Module", lastCall'.arg, "was instantiated",
                           "because it was required from module", Top.id,
                           "but the module factory is not available">>]_vars

\* a module required by an entry module required a module without a factory:
\* the error names the requiring module, which is not the entry
C17_Witness ==
    /\ Len(stack) = 2
    /\ stack[1].id # stack[2].id
    /\ lastCall.op = "parent"
    /\ lastCall.outcome = "threw"
    /\ lastCall.arg \notin DOMAIN moduleFactories
    /\ lastCall.value.message[5] = stack[2].id
    /\ exc = Thrown(lastCall.value)

\* C18: no cached record has both loaded = true and an error; a record with
\* loaded = false and no error has its factory running; so when no
\* instantiation is in progress every cached record is Loaded or has its error
\* recorded.
C18_RecordStates ==
    \A id \in DOMAIN moduleCache :
        /\ ~(moduleCache[id].loaded /\ HasError(moduleCache[id]))
        /\ (~moduleCache[id].loaded /\ ~HasError(moduleCache[id])) => OnStack(id)
        /\ ~InFactory => (moduleCache[id].loaded \/ HasError(moduleCache[id]))

\* C20: an instantiation started by getOrInstantiateRuntimeModule or by a
\* require ends, by a return or a throw, whatever cyclic or self requires the
\* factories make: the factory running at any depth of the stack is
\* eventually popped. The depth of the stack of running factories never
\* exceeds the number of registered module ids, and no id is on it twice.
C20_Termination ==
    /\ [](/\ Len(stack) <= Cardinality(DOMAIN moduleFactories)
          /\ \A i, j \in DOMAIN stack : stack[i].id = stack[j].id => i = j)
    /\ \A d \in 1..Cardinality(ModuleIds) :
           (Len(stack) = d) ~> (Len(stack) < d)

\* the stack is as deep as there are registered ids, and the factory on top
\* has required the entry module at the bottom, closing a cycle
C20_Witness ==
    /\ Len(stack) = Cardinality(DOMAIN moduleFactories)
    /\ Len(stack) > 1
    /\ lastCall.op = "parent"
    /\ lastCall.outcome = "returned"
    /\ lastCall.arg = stack[1].id
    /\ lastCall.source = ParentSource(Top.id)

-----------------------------------------------------------------------------
(* Further properties of chunk loading, checked under SpecChunks *)

\* C13: no operation removes a key from the factory table, a record from the
\* module cache or a path from the loaded-chunk set; clearChunkCache removes
\* every entry of the chunk cache and leaves the factory table, the module
\* cache and the loaded-chunk set unchanged, and no other operation removes
\* an entry of the chunk cache.
C13_MonotonicPopulation ==
    [][/\ DOMAIN moduleFactories \subseteq DOMAIN moduleFactories'
       /\ DOMAIN moduleCache \subseteq DOMAIN moduleCache'
       /\ loadedChunks \subseteq loadedChunks'
       /\ IF lastCall'.op = "clearChunkCache"
          THEN /\ DOMAIN chunkCache' = {}
               /\ UNCHANGED <<moduleFactories, moduleCache, loadedChunks>>
          ELSE DOMAIN chunkCache \subseteq DOMAIN chunkCache']_vars

\* clearChunkCache has emptied a chunk cache that held a rejected entry, while
\* factories, records and loaded chunks exist
C13_Witness ==
    /\ lastCall.op = "clearChunkCache"
    /\ chunkCache = <<>>
    /\ nextPromise > 0
    /\ loadedChunks # {}
    /\ DOMAIN moduleCache # {}
    /\ DOMAIN moduleFactories # {}

\* C15: loadChunkAsync is memoized per chunk path. Between two clearChunkCache
\* calls the loader is invoked at most once for a JS chunk path, however many
\* calls are made and whether the first attempt succeeded or failed; the entry
\* of a path stays the one promise until the cache is cleared, and every call
\* for the path returns that promise.
C15_Memoized ==
    [][\A p \in ExecutablePaths :
          /\ asyncLoads'[p] <= 1
          /\ asyncLoads'[p] = 1 <=> p \in DOMAIN chunkCache'
          /\ (p \in DOMAIN chunkCache /\ lastCall'.op # "clearChunkCache") =>
                 /\ p \in DOMAIN chunkCache'
                 /\ chunkCache'[p] = chunkCache[p]
                 /\ asyncLoads'[p] = asyncLoads[p]
          /\ (lastCall'.op = "loadChunkAsync" /\ lastCall'.arg = p) =>
                 /\ lastCall'.outcome = "returned"
                 /\ lastCall'.value = chunkCache'[p]
                 /\ lastCall'.ran <=> p \notin DOMAIN chunkCache]_vars

\* a load succeeded, and a later call for the path got the same resolved
\* promise from the cache without a second invocation of the loader
C15_Witness ==
    /\ lastCall.op = "loadChunkAsync"
    /\ lastCall.arg \in ExecutablePaths
    /\ ~lastCall.ran
    /\ lastCall.value = loadedChunk
    /\ chunkCache[lastCall.arg] = loadedChunk
    /\ asyncLoads[lastCall.arg] = 1

\* C19: the synchronous and the asynchronous loader keep disjoint
\* bookkeeping. loadChunkAsync never changes the loaded-chunk set and runs the
\* loader for a JS path exactly when the chunk cache has no entry for it,
\* whether or not the path is in the loaded-chunk set; loadChunk never changes
\* the chunk cache and runs the loader for a JS path exactly when the path is
\* not in the loaded-chunk set, whether the chunk cache holds a resolved entry,
\* a rejected entry or none for it.
C19_DisjointBookkeeping ==
    [][/\ lastCall'.op = "loadChunkAsync" =>
             /\ UNCHANGED <<loadedChunks, syncCalls, syncLoaded>>
             /\ lastCall'.arg \in ExecutablePaths =>
                    (lastCall'.ran <=> lastCall'.arg \notin DOMAIN chunkCache)
       /\ lastCall'.op = "loadChunk" =>
             /\ UNCHANGED <<chunkCache, asyncLoads, nextPromise>>
             /\ lastCall'.arg \in ExecutablePaths =>
                    (lastCall'.ran <=> lastCall'.arg \notin loadedChunks)]_vars

\* after a failed asynchronous load of a path, a synchronous load of the path
\* ran the loader and succeeded; the rejected entry is still cached
C19_Witness ==
    /\ lastCall.op = "loadChunk"
    /\ lastCall.ran
    /\ lastCall.outcome = "returned"
    /\ lastCall.arg \in DOMAIN chunkCache
    /\ chunkCache[lastCall.arg].state = "rejected"
    /\ lastCall.arg \in loadedChunks

\* after a successful asynchronous load of a path, a synchronous load of the
\* path ran the loader again
C19_WitnessResolved ==
    /\ lastCall.op = "loadChunk"
    /\ lastCall.ran
    /\ lastCall.arg \in DOMAIN chunkCache
    /\ chunkCache[lastCall.arg] = loadedChunk

-----------------------------------------------------------------------------
(* Chunk-load failures and their callers, checked under SpecCallers *)

\* a call of loadChunk or loadChunkAsync for a JS chunk that delivered a
\* failure: thrown by loadChunk, or returned as a rejected promise
FailureOf(call) ==
    IF call.op = "loadChunk" /\ call.outcome = "threw" THEN call.value
    ELSE IF call.op = "loadChunkAsync" /\ call.value.state = "rejected"
    THEN call.value.reason
    ELSE Undefined

\* the failure names the chunk path and the source, in the words of the
\* message of runtime.ts:134-137, and carries the error of the loader
NamesPathAndSource(failure, chunkPath, source) ==
    /\ failure.kind = "Error"
    /\ failure.cause = LoaderError
    /\ failure.message =
           IF source = Undefined
           THEN <<"Failed to load chunk", chunkPath>>
           ELSE IF source.type = SourceTypeParent
           THEN <<"Failed to load chunk", chunkPath, "from", "parent module",
                  source.parentId>>
           ELSE <<"Failed to load chunk", chunkPath, "from", "runtime for chunk",
                  source.chunkPath>>

\* C16 as stated: every call of loadChunk or loadChunkAsync for a JS chunk
\* whose load fails or has failed delivers a failure that names the chunk path
\* and the source passed in that same call, and does not return success.
C16_CallerProvenance ==
    [][/\ FailureOf(lastCall') # Undefined =>
             NamesPathAndSource(FailureOf(lastCall'), lastCall'.arg, lastCall'.source)
       /\ (/\ lastCall'.op = "loadChunkAsync"
           /\ lastCall'.arg \in DOMAIN chunkCache
           /\ chunkCache[lastCall'.arg].state = "rejected") =>
             /\ FailureOf(lastCall') # Undefined
             /\ lastCall'.value # loadedChunk]_vars

\* C16, amended: a failure names the chunk path and the source of the call
\* that invoked the loader. That is the source of the same call for loadChunk
\* (no source text when none is passed) and for the first loadChunkAsync of a
\* path; later loadChunkAsync calls for the path get the cached rejection,
\* with the source of that first call, until the cache is cleared. No call
\* whose load fails or has failed returns success.
C16_LoaderCallProvenance ==
    [][/\ (FailureOf(lastCall') # Undefined /\ lastCall'.ran) =>
             NamesPathAndSource(FailureOf(lastCall'), lastCall'.arg, lastCall'.source)
       /\ (lastCall'.op = "loadChunk" /\ lastCall'.outcome = "threw") =>
             /\ lastCall'.ran
             /\ lastCall'.arg \notin loadedChunks'
       /\ (/\ lastCall'.op = "loadChunkAsync"
           /\ lastCall'.arg \in DOMAIN chunkCache
           /\ chunkCache[lastCall'.arg].state = "rejected") =>
             /\ ~lastCall'.ran
             /\ lastCall'.value = chunkCache[lastCall'.arg]
             /\ lastCall'.value # loadedChunk
       /\ \A p \in DOMAIN chunkCache' :
             chunkCache'[p].state = "rejected" =>
                 \E id \in DOMAIN moduleCache' :
                     NamesPathAndSource(chunkCache'[p].reason, p, ParentSource(id))]_vars

\* a loadChunkAsync of one module got the cached rejection of a load that
\* another module had requested
C16_Witness ==
    /\ lastCall.op = "loadChunkAsync"
    /\ ~lastCall.ran
    /\ lastCall.value.state = "rejected"
    /\ lastCall.value = chunkCache[lastCall.arg]
    /\ ~NamesPathAndSource(lastCall.value.reason, lastCall.arg, lastCall.source)
    /\ \E id \in DOMAIN moduleCache :
           NamesPathAndSource(lastCall.value.reason, lastCall.arg, ParentSource(id))

-----------------------------------------------------------------------------
(* Properties of findApplicableSourceMapPayload, checked under SpecSourceMaps *)

\* the sections of the payload whose offset is at or before the frame
\* position, in the lexicographic order of (line, column)
SectionsAtOrBefore ==
    {i \in DOMAIN payload.sections :
        LET o == payload.sections[i].offset
        IN \/ o.line < position.line0
           \/ o.line = position.line0 /\ o.column < position.column0
           \/ o.line = position.line0 /\ o.column = position.column0}

\* C21: for an index source map with sections sorted by offset,
\* findApplicableSourceMapPayload returns the map of the last section whose
\* offset is at or before the frame position, and undefined when there is no
\* section or every section starts after the frame: the binary search agrees
\* with a linear scan. A payload without sections is returned unchanged.
C21_ApplicableSection ==
    applicable # NotCalled =>
        IF "sections" \in DOMAIN payload
        THEN IF SectionsAtOrBefore = {}
             THEN applicable = Undefined
             ELSE \E last \in SectionsAtOrBefore :
                     /\ \A i \in SectionsAtOrBefore : i <= last
                     /\ applicable = payload.sections[last].map
        ELSE applicable = payload

\* the search returned the map of the middle one of three sections: the
\* second starts on the line of the frame, the third after the frame
C21_Witness ==
    /\ applicable # NotCalled
    /\ "sections" \in DOMAIN payload
    /\ Len(payload.sections) = 3
    /\ applicable = payload.sections[2].map
    /\ payload.sections[2].offset.line = position.line0
    /\ payload.sections[1].offset # payload.sections[2].offset

-----------------------------------------------------------------------------
(* Properties of ignoreListAnonymousStackFramesIfSandwiched, checked under
   SpecFrames *)

\* the frame at index i (from 0) is anonymous with a native-like method name
\* and lies in a run of such frames that follows an ignored frame and is
\* followed by an ignored frame
Sandwiched(i) ==
    \E a \in 1..i : \E b \in i..(Len(frames) - 2) :
        /\ \A x \in a..b : AnonymousNative(frames[x + 1])
        /\ isIgnoredFrame(frames[a])
        /\ isIgnoredFrame(frames[b + 2])

\* C22: a frame is passed to ignoreFrame only if it is anonymous with a
\* native-like method name and lies in a contiguous run of such frames that
\* is immediately preceded by an ignored frame and immediately followed by an
\* ignored frame; the first and the last frame are never passed, and no frame
\* is passed twice.
C22_OnlySandwiched ==
    ignoreFrameCalls # NotCalled =>
        /\ \A k \in DOMAIN ignoreFrameCalls.indices :
              LET i == ignoreFrameCalls.indices[k]
              IN /\ i > 0
                 /\ i < Len(frames) - 1
                 /\ Sandwiched(i)
        /\ \A k, l \in DOMAIN ignoreFrameCalls.indices :
              ignoreFrameCalls.indices[k] = ignoreFrameCalls.indices[l] => k = l
====
